---- MODULE Spec2Model ----
(***************************************************************************)
(* A model of Python/app.py, the interactive Cosmos DB management sample:  *)
(* the configuration loader, the scope resolver, the throughput update,    *)
(* the deterministic role-assignment names and the interactive menu.       *)
(*                                                                         *)
(* Python strings are modelled as sequences of one-character strings, so   *)
(* that strip(), lower(), int() and prefix tests are computed, not assumed.*)
(* An optional value (None or a value) is a record: None, or Some(v).      *)
(***************************************************************************)
EXTENDS Integers, Sequences, FiniteSets, TLC

VARIABLES
    pc,                 \* where the program (or the function under check) stands
    configFile,         \* None (no config.env) or Some(dict dotenv_values() returned)
    settings,           \* the module global `settings` (None or a Settings record)
    error,              \* the exception that ended the last step (None or a record)
    scopeKind,          \* the argument of a get_assignable_scope call under check
    scopeResult,        \* what that call returned (None before the call)
    tokenGiven,         \* what CREDENTIAL.get_token gives a get_current_principal_id
                        \* call under check, if asked (None: no such call)
    tokenAcquired,      \* whether that call asked for the token
    principalResult,    \* what that call returned or raised (None before the call)
    identityFailed,     \* get_current_principal_id has raised its RuntimeError in
                        \* this run
    COSMOS_CLIENT,      \* the three module globals: "None" or "open"
    AUTHZ_CLIENT,
    CREDENTIAL,
    closed,             \* the handles whose close() has completed
    stdinIsTty,         \* sys.stdin.isatty()
    osenv,              \* the process environment variables the program reads
    selection,          \* the menu selection read, stripped and lower-cased
    typed,              \* the answer to the action's own prompt, stripped (None: no prompt)
    todo,               \* the operations the current menu action has still to run
    calls,              \* the operations the current menu action has invoked, in order
    delta,              \* the argument of update_throughput (None: not called)
    existing,           \* what the first throughput read gave, a response or an
                        \* exception (None: no read)
    update,             \* the throughput update submitted (None: none)
    roleDefinitionId,   \* the role definition id resolved for the assignment
    assignment,         \* the role assignment the current menu action submitted to
                        \* each plane, control and data (None: none)
    caught,             \* the exception the menu loop caught in this iteration
    reported            \* what the menu loop printed about this iteration

scopeVars == <<scopeKind, scopeResult, tokenGiven, tokenAcquired, principalResult>>
clientVars == <<COSMOS_CLIENT, AUTHZ_CLIENT, CREDENTIAL, closed>>
inputVars == <<stdinIsTty, osenv>>
actionVars == <<selection, typed, todo, calls, delta, existing, update,
                roleDefinitionId, assignment, caught, reported>>
menuVars == <<clientVars, inputVars, identityFailed, actionVars>>
vars == <<pc, configFile, settings, error, scopeVars, menuVars>>

None == [isNone |-> TRUE]
Some(v) == [isNone |-> FALSE, val |-> v]

Planes == {"control", "data"}
NoAssignment == [plane \in Planes |-> None]

----------------------------------------------------------------------------
(* Strings *)

Whitespace == {" ", "\t"}

RECURSIVE LStrip(_, _)
LStrip(s, chars) ==
    IF s # <<>> /\ Head(s) \in chars THEN LStrip(Tail(s), chars) ELSE s

RECURSIVE RStrip(_, _)
RStrip(s, chars) ==
    IF s # <<>> /\ s[Len(s)] \in chars
    THEN RStrip(SubSeq(s, 1, Len(s) - 1), chars)
    ELSE s

\* str.strip(chars): both ends, any run of the given characters
Strip(s, chars) == RStrip(LStrip(s, chars), chars)

----------------------------------------------------------------------------
(* Settings and load_config *)

DefaultMaxAutoscaleThroughput == 1000
MinAutoscaleThroughput == 1000

RequiredKeys ==
    << "subscription_id", "resource_group_name", "account_name",
       "location", "database_name", "container_name" >>

ConfigKeys == {RequiredKeys[i] : i \in 1..Len(RequiredKeys)} \cup {"max_autoscale_throughput"}

\* _clean: None stays None; otherwise strip whitespace, then strip double
\* quotes; an empty result is None
_clean(value) ==
    IF value.isNone THEN None
    ELSE LET v == Strip(Strip(value.val, Whitespace), {"\""})
         IN  IF v # <<>> THEN Some(v) ELSE None

Digits == {"0", "1", "2", "3", "4", "5", "6", "7", "8", "9"}

DigitVal(c) ==
    CASE c = "0" -> 0 [] c = "1" -> 1 [] c = "2" -> 2 [] c = "3" -> 3
      [] c = "4" -> 4 [] c = "5" -> 5 [] c = "6" -> 6 [] c = "7" -> 7
      [] c = "8" -> 8 [] c = "9" -> 9

\* the digits of an int() literal: digits, with single underscores allowed
\* between two digits
RECURSIVE IsDigitString(_)
IsDigitString(s) ==
    /\ s # <<>>
    /\ Head(s) \in Digits
    /\ \/ Len(s) = 1
       \/ IsDigitString(Tail(s))
       \/ Len(s) >= 3 /\ s[2] = "_" /\ IsDigitString(SubSeq(s, 3, Len(s)))

RECURSIVE DigitsValue(_, _)
DigitsValue(s, acc) ==
    IF s = <<>> THEN acc
    ELSE IF Head(s) = "_" THEN DigitsValue(Tail(s), acc)
    ELSE DigitsValue(Tail(s), 10 * acc + DigitVal(Head(s)))

\* int(text): surrounding whitespace is ignored, one optional sign, then the
\* digits; anything else raises ValueError (here: None)
ParseInt(text) ==
    LET t == Strip(text, Whitespace)
        signed == t # <<>> /\ Head(t) \in {"+", "-"}
        body == IF signed THEN Tail(t) ELSE t
    IN  IF ~IsDigitString(body) THEN None
        ELSE IF signed /\ Head(t) = "-" THEN Some(0 - DigitsValue(body, 0))
        ELSE Some(DigitsValue(body, 0))

\* an exception: its class, what it reports, and the names or the status code
\* its message carries (a sequence of strings)
Exception(type, kind, keys) == [type |-> type, kind |-> kind, keys |-> keys]
ValueError(kind, keys) == Exception("ValueError", kind, keys)
FileNotFoundError == Exception("FileNotFoundError", "missing_file", <<>>)
RuntimeError(kind, keys) == Exception("RuntimeError", kind, keys)
HttpResponseError(status) == Exception("HttpResponseError", "http", <<status>>)
EOFError == Exception("EOFError", "end_of_input", <<>>)

OrEmpty(opt) == IF opt.isNone THEN <<>> ELSE opt.val

Settings(e, max) ==
    [ subscription_id          |-> OrEmpty(_clean(e["subscription_id"])),
      resource_group_name      |-> OrEmpty(_clean(e["resource_group_name"])),
      account_name             |-> OrEmpty(_clean(e["account_name"])),
      location                 |-> OrEmpty(_clean(e["location"])),
      database_name            |-> OrEmpty(_clean(e["database_name"])),
      container_name           |-> OrEmpty(_clean(e["container_name"])),
      max_autoscale_throughput |-> max ]

\* a loader that tests the raw dict entry and forgets to clean it
MissingKeysUncleaned(e) == SelectSeq(RequiredKeys, LAMBDA key : e[key].isNone)

\* the keys of required_keys whose cleaned value is falsy, in order
MissingKeys(e) == SelectSeq(RequiredKeys, LAMBDA key : _clean(e[key]).isNone)

\* a loader that also rejects the minimum itself
BelowMinimumInclusive(value) == value <= MinAutoscaleThroughput

\* the test `max_autoscale_throughput < 1000`
BelowMinimum(value) == value < MinAutoscaleThroughput

\* load_config: file is None when config.env does not exist, else Some(dict),
\* the dict giving None for a key the file omits.  The result is
\* [raised |-> exception or None, value |-> Settings or None].
Raise(ex) == [raised |-> Some(ex), value |-> None]
Return(v) == [raised |-> None, value |-> Some(v)]

load_config(file) ==
    IF file.isNone THEN Raise(FileNotFoundError)
    ELSE
      LET e == file.val
          missing == MissingKeys(e)
          raw == _clean(e["max_autoscale_throughput"])
          parsed == IF raw.isNone THEN Some(DefaultMaxAutoscaleThroughput)
                    ELSE ParseInt(raw.val)
      IN  IF missing # <<>> THEN Raise(ValueError("missing_required_keys", missing))
          ELSE IF parsed.isNone THEN Raise(ValueError("not_an_integer", <<"max_autoscale_throughput">>))
          ELSE IF BelowMinimum(parsed.val)
               THEN Raise(ValueError("below_minimum", <<"max_autoscale_throughput">>))
          ELSE Return(Settings(e, parsed.val))

----------------------------------------------------------------------------
(* main, first step: settings = load_config() *)

MainLoadConfig ==
    /\ pc = "load_config"
    /\ LET r == load_config(configFile)
       IN  IF r.raised.isNone
           THEN /\ settings' = r.value
                /\ error' = None
                /\ pc' = "initialize_clients"
           ELSE /\ settings' = settings
                /\ error' = r.raised
                /\ pc' = "raised"
    /\ UNCHANGED <<configFile, scopeVars, menuVars>>

----------------------------------------------------------------------------
(* The configuration files tried *)

Spread == 3       \* integers this far either side of the minimum are tried

\* the decimal text of an integer, as a config.env author writes it
RECURSIVE NatText(_)
NatText(n) ==
    LET d == <<"0", "1", "2", "3", "4", "5", "6", "7", "8", "9">>[(n % 10) + 1]
    IN  IF n < 10 THEN <<d>> ELSE Append(NatText(n \div 10), d)

IntText(n) == IF n < 0 THEN <<"-">> \o NatText(0 - n) ELSE NatText(n)

ThroughputInts ==
    {-1000, -1, 0, 1, 4000, 10000}
        \cup ((MinAutoscaleThroughput - Spread) .. (MinAutoscaleThroughput + Spread))

TextStyles == {"plain", "quoted", "padded", "quoted_inner_padded", "plus"}

Styled(text, style) ==
    CASE style = "plain" -> text
      [] style = "quoted" -> <<"\"">> \o text \o <<"\"">>
      [] style = "padded" -> <<" ">> \o text \o <<"\t", " ">>
      [] style = "quoted_inner_padded" -> <<" ", "\"", " ">> \o text \o <<" ", "\"">>
      [] style = "plus" -> IF Head(text) = "-" THEN text ELSE <<"+">> \o text

\* texts int() rejects
NotIntegerTexts ==
    { <<"x">>, <<"1", "0", "0", "0", ".", "5">>, <<"1", " ", "0", "0", "0">>,
      <<"1", "_", "_", "0">>, <<"-">>, <<"1", "0", "0", "0", "_">> }

\* texts that clean to nothing: the key counts as absent
BlankTexts == { <<>>, <<" ">>, <<"\"", "\"">>, <<" ", "\"", "\"", "\t">>, <<"\"">> }

ThroughputValues ==
    {None}
        \cup {Some(Styled(IntText(n), st)) : n \in ThroughputInts, st \in TextStyles}
        \cup {Some(<<"1", "_", "0", "0", "0">>), Some(<<"0", "9", "9", "9">>)}
        \cup {Some(t) : t \in NotIntegerTexts}
        \cup {Some(<<>>), Some(<<"\"", "\"">>)}

\* per required key: the value a well-formed file gives it, as written and
\* as it is expected in Settings
WrittenValue(key) ==
    CASE key = "subscription_id"     -> <<"s", "u", "b">>
      [] key = "resource_group_name" -> <<"\"", "r", "g", "\"">>
      [] key = "account_name"        -> <<" ", "a", "c", "\t">>
      [] key = "location"            -> <<" ", "\"", "e", "u", "\"", " ">>
      [] key = "database_name"       -> <<"\"", "d", " ", "b", "\"">>
      [] key = "container_name"      -> <<"\"", " ", "c", "\"">>

ExpectedValue(key) ==
    CASE key = "subscription_id"     -> <<"s", "u", "b">>
      [] key = "resource_group_name" -> <<"r", "g">>
      [] key = "account_name"        -> <<"a", "c">>
      [] key = "location"            -> <<"e", "u">>
      [] key = "database_name"       -> <<"d", " ", "b">>
      [] key = "container_name"      -> <<" ", "c">>

BlankValue(key) ==
    CASE key = "subscription_id"     -> <<>>
      [] key = "resource_group_name" -> <<" ">>
      [] key = "account_name"        -> <<"\"", "\"">>
      [] key = "location"            -> <<" ", "\"", "\"", "\t">>
      [] key = "database_name"       -> <<"\"">>
      [] key = "container_name"      -> <<"\t", " ">>

RequiredKeySet == {RequiredKeys[i] : i \in 1..Len(RequiredKeys)}

RequiredValue(key, how) ==
    CASE how = "omitted" -> None
      [] how = "blank"   -> Some(BlankValue(key))
      [] how = "written" -> Some(WrittenValue(key))

ConfigDicts ==
    { [k \in ConfigKeys |->
          IF k = "max_autoscale_throughput" THEN t ELSE RequiredValue(k, how[k])] :
        t \in ThroughputValues,
        how \in [RequiredKeySet -> {"omitted", "blank", "written"}] }

\* the state of the globals and of the menu before main has run
NothingRun ==
    /\ COSMOS_CLIENT = "None" /\ AUTHZ_CLIENT = "None" /\ CREDENTIAL = "None"
    /\ closed = {}
    /\ selection = <<>> /\ typed = None /\ todo = <<>> /\ calls = <<>>
    /\ delta = None /\ existing = None /\ update = None
    /\ roleDefinitionId = None /\ assignment = NoAssignment
    /\ caught = None /\ reported = ""
    /\ identityFailed = FALSE

\* no get_current_principal_id call is under check
NoPrincipalCall == tokenGiven = None /\ tokenAcquired = FALSE /\ principalResult = None

NoEnvironment ==
    [ COSMOS_SAMPLE_DELETE_ACCOUNT |-> None,
      AZURE_PRINCIPAL_OBJECT_ID    |-> None,
      principal_object_id          |-> None ]

ConfigInit ==
    /\ NothingRun /\ stdinIsTty = TRUE /\ osenv = NoEnvironment
    /\ pc = "load_config"
    /\ configFile \in {None} \cup {Some(d) : d \in ConfigDicts}
    /\ settings = None
    /\ error = None
    /\ scopeKind = "Account"
    /\ scopeResult = None
    /\ NoPrincipalCall

SpecConfig == ConfigInit /\ [][MainLoadConfig]_vars

----------------------------------------------------------------------------
(* get_assignable_scope *)

IsPrefix(p, s) == Len(p) <= Len(s) /\ SubSeq(s, 1, Len(p)) = p
IsStrictPrefix(p, s) == IsPrefix(p, s) /\ Len(p) < Len(s)

SubscriptionsSegment == <<"/", "s", "u", "b", "s", "c", "r", "i", "p", "t", "i", "o", "n", "s", "/">>
ResourceGroupsSegment == <<"/", "r", "e", "s", "o", "u", "r", "c", "e", "G", "r", "o", "u", "p", "s", "/">>
DatabaseAccountsSegment ==
    <<"/", "p", "r", "o", "v", "i", "d", "e", "r", "s", "/",
      "M", "i", "c", "r", "o", "s", "o", "f", "t", ".",
      "D", "o", "c", "u", "m", "e", "n", "t", "D", "B", "/",
      "d", "a", "t", "a", "b", "a", "s", "e", "A", "c", "c", "o", "u", "n", "t", "s", "/">>
DbsSegment == <<"/", "d", "b", "s", "/">>
CollsSegment == <<"/", "c", "o", "l", "l", "s", "/">>

\* f"/subscriptions/{settings.subscription_id}", the scope
\* get_azure_role_definition_cosmos_operator queries
SubscriptionScope == SubscriptionsSegment \o settings.val.subscription_id

ScopeKeys == {"ResourceGroup", "Account", "Database", "Container"}

\* a mapping whose Database entry leaves the account out of the path
ScopeMappingDatabaseUnderGroup(settings_, kind) ==
    LET rg == SubscriptionsSegment \o settings_.subscription_id
                \o ResourceGroupsSegment \o settings_.resource_group_name
        acct == rg \o DatabaseAccountsSegment \o settings_.account_name
        db == rg \o DbsSegment \o settings_.database_name
    IN  CASE kind = "ResourceGroup" -> rg
          [] kind = "Account" -> acct
          [] kind = "Database" -> db
          [] kind = "Container" -> db \o CollsSegment \o settings_.container_name

\* the dict scope_mapping, built from the global settings (settings_ here):
\* each entry is its own f-string
scope_mapping(settings_, kind) ==
    CASE kind = "ResourceGroup" ->
            SubscriptionsSegment \o settings_.subscription_id
              \o ResourceGroupsSegment \o settings_.resource_group_name
      [] kind = "Account" ->
            SubscriptionsSegment \o settings_.subscription_id
              \o ResourceGroupsSegment \o settings_.resource_group_name
              \o DatabaseAccountsSegment \o settings_.account_name
      [] kind = "Database" ->
            SubscriptionsSegment \o settings_.subscription_id
              \o ResourceGroupsSegment \o settings_.resource_group_name
              \o DatabaseAccountsSegment \o settings_.account_name
              \o DbsSegment \o settings_.database_name
      [] kind = "Container" ->
            SubscriptionsSegment \o settings_.subscription_id
              \o ResourceGroupsSegment \o settings_.resource_group_name
              \o DatabaseAccountsSegment \o settings_.account_name
              \o DbsSegment \o settings_.database_name
              \o CollsSegment \o settings_.container_name

\* a resolver whose default is the resource group
get_assignable_scope_default_group(scope) ==
    IF scope \in ScopeKeys THEN scope_mapping(settings.val, scope)
    ELSE scope_mapping(settings.val, "ResourceGroup")

\* scope_mapping.get(scope, scope_mapping["Account"])
get_assignable_scope(scope) ==
    IF scope \in ScopeKeys THEN scope_mapping(settings.val, scope)
    ELSE scope_mapping(settings.val, "Account")

\* one call of the resolver
ResolveScope ==
    /\ pc = "get_assignable_scope"
    /\ scopeResult' = Some(get_assignable_scope(scopeKind))
    /\ pc' = "returned"
    /\ UNCHANGED <<configFile, settings, error, scopeKind, tokenGiven, tokenAcquired,
                   principalResult, menuVars>>

\* the kinds the spec lists, then names the mapping does not hold
SpecKinds == <<"Subscription", "ResourceGroup", "Account", "Database", "Container">>
UnknownKinds == {"Subscription", "account", "", "Item", "ResourceGroup "}
ScopeKinds == ScopeKeys \cup UnknownKinds

NameTexts(a, b) == {<<a>>, <<a, b>>, <<a, "/", b>>}

ScopeSettings ==
    { [ subscription_id          |-> sub,
        resource_group_name      |-> rg,
        account_name             |-> ac,
        location                 |-> <<"e", "u">>,
        database_name            |-> db,
        container_name           |-> co,
        max_autoscale_throughput |-> DefaultMaxAutoscaleThroughput ] :
        sub \in NameTexts("s", "1"), rg \in NameTexts("r", "g"),
        ac \in {<<"a">>, <<"a", "c">>}, db \in {<<"d">>, <<"d", "b", "s">>},
        co \in {<<"c">>, <<"c", "o", "l", "l", "s">>} }

ScopeInit ==
    /\ NothingRun /\ stdinIsTty = TRUE /\ osenv = NoEnvironment
    /\ pc = "get_assignable_scope"
    /\ configFile = None
    /\ settings \in {Some(st) : st \in ScopeSettings}
    /\ error = None
    /\ scopeKind \in ScopeKinds
    /\ scopeResult = None
    /\ NoPrincipalCall

SpecScope == ScopeInit /\ [][ResolveScope]_vars

----------------------------------------------------------------------------
(* update_throughput *)

\* a baseline that does not fall back to the configured maximum
NewAutoscaleMaxNoFallback(current_autoscale_max, add_throughput) ==
    current_autoscale_max + add_throughput

\* baseline = current_autoscale_max or settings.max_autoscale_throughput;
\* new_autoscale_max = baseline + add_throughput
NewAutoscaleMax(current_autoscale_max, add_throughput) ==
    LET baseline == IF current_autoscale_max # 0 THEN current_autoscale_max
                    ELSE settings.val.max_autoscale_throughput
    IN  baseline + add_throughput

\* a zero baseline replaced by the delta, with the delta then added again
NewManualThroughputAppliedTwice(current_manual_throughput, add_throughput) ==
    LET baseline0 == IF current_manual_throughput.isNone THEN 0
                     ELSE current_manual_throughput.val
        baseline == IF baseline0 = 0 THEN add_throughput ELSE baseline0
    IN  baseline + add_throughput

\* baseline = current_manual_throughput or 0; a zero baseline becomes the
\* delta and the delta becomes 0; new_manual_throughput = baseline + delta
NewManualThroughput(current_manual_throughput, add_throughput) ==
    LET baseline0 == IF current_manual_throughput.isNone
                        \/ current_manual_throughput.val = 0
                     THEN 0 ELSE current_manual_throughput.val
        baseline == IF baseline0 = 0 THEN add_throughput ELSE baseline0
        add == IF baseline0 = 0 THEN 0 ELSE add_throughput
    IN  baseline + add

\* the three getattr(..., None) reads of the response
CurrentAutoscaleMax(response) ==
    IF response.resource.isNone THEN None
    ELSE IF response.resource.val.autoscale_settings.isNone THEN None
    ELSE response.resource.val.autoscale_settings.val.max_throughput

CurrentManualThroughput(response) ==
    IF response.resource.isNone THEN None ELSE response.resource.val.throughput

\* the ThroughputSettingsResource of the update: autoscale when the read
\* gave an autoscale maximum, manual otherwise
ThroughputUpdate(response, add_throughput) ==
    IF ~CurrentAutoscaleMax(response).isNone
    THEN [ autoscale_max |-> Some(NewAutoscaleMax(CurrentAutoscaleMax(response).val, add_throughput)),
           throughput    |-> None ]
    ELSE [ autoscale_max |-> None,
           throughput    |-> Some(NewManualThroughput(CurrentManualThroughput(response), add_throughput)) ]

\* a handler that wraps every failed read alike
ReadFailureAlwaysWrapped(ex) ==
    RuntimeError("no_dedicated_throughput", ex.keys)

\* except HttpResponseError: status 404 becomes the RuntimeError "Container
\* throughput settings were not found. Container using database throughput
\* or serverless."; anything else is raised again as it is
ReadFailure(ex) ==
    IF ex.type = "HttpResponseError" /\ ex.keys = <<"404">>
    THEN RuntimeError("no_dedicated_throughput", ex.keys)
    ELSE ex

----------------------------------------------------------------------------
(* uuid.uuid5(uuid.NAMESPACE_URL, name): SHA-1 of the namespace bytes and  *)
(* the name's bytes, cut to 16 bytes, with the version and variant bits    *)
(* set.  A 32-bit word is a pair <<high 16 bits, low 16 bits>>.            *)

RECURSIVE BitwiseNibble(_, _, _, _)
BitwiseNibble(op, a, b, n) ==
    IF n = 0 THEN 0
    ELSE LET x == a % 2
             y == b % 2
             bit == CASE op = "and" -> x * y
                      [] op = "or"  -> IF x + y > 0 THEN 1 ELSE 0
                      [] op = "xor" -> (x + y) % 2
         IN  bit + 2 * BitwiseNibble(op, a \div 2, b \div 2, n - 1)

AndNibble == [a \in 0..15 |-> [b \in 0..15 |-> BitwiseNibble("and", a, b, 4)]]
OrNibble  == [a \in 0..15 |-> [b \in 0..15 |-> BitwiseNibble("or", a, b, 4)]]
XorNibble == [a \in 0..15 |-> [b \in 0..15 |-> BitwiseNibble("xor", a, b, 4)]]

\* a nibble-wise operation on two 16-bit values
Bitwise16(table, a, b) ==
    table[a % 16][b % 16]
      + 16 * table[(a \div 16) % 16][(b \div 16) % 16]
      + 256 * table[(a \div 256) % 16][(b \div 256) % 16]
      + 4096 * table[a \div 4096][b \div 4096]

And32(x, y) == <<Bitwise16(AndNibble, x[1], y[1]), Bitwise16(AndNibble, x[2], y[2])>>
Or32(x, y)  == <<Bitwise16(OrNibble, x[1], y[1]), Bitwise16(OrNibble, x[2], y[2])>>
Xor32(x, y) == <<Bitwise16(XorNibble, x[1], y[1]), Bitwise16(XorNibble, x[2], y[2])>>
Not32(x) == <<65535 - x[1], 65535 - x[2]>>

Add32(x, y) ==
    LET lo == x[2] + y[2]
    IN  <<(x[1] + y[1] + (lo \div 65536)) % 65536, lo % 65536>>

Pow2(n) == CASE n = 0 -> 1 [] n = 1 -> 2 [] n = 2 -> 4 [] n = 5 -> 32
             [] n = 11 -> 2048 [] n = 14 -> 16384 [] n = 15 -> 32768

\* rotate left by n bits, 0 < n < 32
RotL32(x, n) ==
    LET y == IF n >= 16 THEN <<x[2], x[1]>> ELSE x
        k == n % 16
    IN  IF k = 0 THEN y
        ELSE << ((y[1] * Pow2(k)) % 65536) + (y[2] \div Pow2(16 - k)),
                ((y[2] * Pow2(k)) % 65536) + (y[1] \div Pow2(16 - k)) >>

Sha1InitialHash == << <<26437, 8961>>, <<61389, 43913>>, <<39098, 56574>>, <<4146, 21622>>, <<50130, 57840>> >>

Sha1K(t) == CASE t < 20 -> <<23170, 31129>> [] t >= 20 /\ t < 40 -> <<28377, 60321>>
              [] t >= 40 /\ t < 60 -> <<36635, 48348>> [] t >= 60 -> <<51810, 49622>>

Sha1F(t, b, c, d) ==
    CASE t < 20 -> Or32(And32(b, c), And32(Not32(b), d))
      [] t >= 20 /\ t < 40 -> Xor32(Xor32(b, c), d)
      [] t >= 40 /\ t < 60 -> Or32(Or32(And32(b, c), And32(b, d)), And32(c, d))
      [] t >= 60 -> Xor32(Xor32(b, c), d)

\* the message: the bytes, 0x80, zeros up to 56 mod 64, the bit length in
\* 8 bytes (messages here are shorter than 8192 bytes)
Sha1Pad(bytes) ==
    LET l == Len(bytes)
        zeros == [i \in 1..((119 - l) % 64) |-> 0]
        bits == 8 * l
    IN  bytes \o <<128>> \o zeros
          \o <<0, 0, 0, 0, 0, 0, (bits \div 256) % 256, bits % 256>>

\* the 16 words of block number blk (from 0) of the padded message
Sha1BlockWords(m, blk) ==
    [i \in 1..16 |->
        LET o == 64 * blk + 4 * (i - 1)
        IN  <<256 * m[o + 1] + m[o + 2], 256 * m[o + 3] + m[o + 4]>>]

RECURSIVE Sha1Schedule(_)
Sha1Schedule(w) ==
    IF Len(w) = 80 THEN w
    ELSE LET t == Len(w) + 1
         IN  Sha1Schedule(Append(w,
                RotL32(Xor32(Xor32(w[t - 3], w[t - 8]), Xor32(w[t - 14], w[t - 16])), 1)))

\* rounds t .. last of the compression function on the state s = <<a, b, c, d, e>>
RECURSIVE Sha1Rounds(_, _, _, _)
Sha1Rounds(t, last, s, w) ==
    IF t > last \/ Len(s) # 5 THEN s
    ELSE LET temp == Add32(Add32(Add32(RotL32(s[1], 5), Sha1F(t, s[2], s[3], s[4])),
                                Add32(s[5], Sha1K(t))), w[t + 1])
         IN  Sha1Rounds(t + 1, last, <<temp, s[1], RotL32(s[2], 30), s[3], s[4]>>, w)

\* the 80 rounds, in the four stages of 20
Sha1Compress(h, w) ==
    LET s1 == Sha1Rounds(0, 19, h, w)
        s2 == Sha1Rounds(20, 39, s1, w)
        s3 == Sha1Rounds(40, 59, s2, w)
    IN  Sha1Rounds(60, 79, s3, w)

\* the hash value after a block: the words of h and s added pairwise
Sha1Sum(h, s) ==
    <<Add32(h[1], s[1]), Add32(h[2], s[2]), Add32(h[3], s[3]),
      Add32(h[4], s[4]), Add32(h[5], s[5])>>

RECURSIVE Sha1Blocks(_, _, _)
Sha1Blocks(m, blk, h) ==
    IF 64 * blk >= Len(m) \/ Len(h) # 5 THEN h
    ELSE Sha1Blocks(m, blk + 1,
            Sha1Sum(h, Sha1Compress(h, Sha1Schedule(Sha1BlockWords(m, blk)))))

\* the 20 bytes of the five words of h
Sha1Digest(h) ==
    [i \in 1..20 |->
        LET word == h[((i - 1) \div 4) + 1]
            half == word[(((i - 1) % 4) \div 2) + 1]
        IN  IF (i - 1) % 2 = 0 THEN half \div 256 ELSE half % 256]

Sha1(bytes) == Sha1Digest(Sha1Blocks(Sha1Pad(bytes), 0, Sha1InitialHash))

\* the printable ASCII characters, from code 32 on (codes 92 and 96, the
\* backslash and the backtick, are held by placeholders: no name here has them)
AsciiChars ==
    <<
       " ", "!", "\"", "#", "$", "%", "&", "'", "(", ")", "*", "+",
       ",", "-", ".", "/", "0", "1", "2", "3", "4", "5", "6", "7",
       "8", "9", ":", ";", "<", "=", ">", "?", "@", "A", "B", "C",
       "D", "E", "F", "G", "H", "I", "J", "K", "L", "M", "N", "O",
       "P", "Q", "R", "S", "T", "U", "V", "W", "X", "Y", "Z", "[",
       "(backslash)", "]", "^", "_", "(backtick)", "a", "b", "c", "d", "e", "f", "g",
       "h", "i", "j", "k", "l", "m", "n", "o", "p", "q", "r", "s",
       "t", "u", "v", "w", "x", "y", "z", "{", "|", "}", "~" >>

Ord(c) == 31 + (CHOOSE i \in 1..Len(AsciiChars) : AsciiChars[i] = c)

\* name.encode("utf-8"), for names of ASCII characters
Utf8(text) == [i \in 1..Len(text) |-> Ord(text[i])]

\* uuid.NAMESPACE_URL.bytes: 6ba7b811-9dad-11d1-80b4-00c04fd430c8
NAMESPACE_URL == <<107, 167, 184, 17, 157, 173, 17, 209, 128, 180, 0, 192, 79, 212, 48, 200>>

HexDigits == <<"0", "1", "2", "3", "4", "5", "6", "7", "8", "9", "a", "b", "c", "d", "e", "f">>

\* str(UUID): the 16 bytes in lower-case hex, grouped 8-4-4-4-12
UuidText(bytes) ==
    LET hex(i) == <<HexDigits[(bytes[i] \div 16) + 1], HexDigits[(bytes[i] % 16) + 1]>>
        run(a, b) == LET RECURSIVE r(_)
                         r(i) == IF i > b THEN <<>> ELSE hex(i) \o r(i + 1)
                     IN  r(a)
    IN  run(1, 4) \o <<"-">> \o run(5, 6) \o <<"-">> \o run(7, 8) \o <<"-">>
          \o run(9, 10) \o <<"-">> \o run(11, 16)

\* str(uuid.uuid5(namespace, name)): version 5 in byte 6, the RFC 4122
\* variant in byte 8
Uuid5Bytes(digest) ==
    [i \in 1..16 |->
        CASE i = 7 -> 80 + (digest[i] % 16)
          [] i = 9 -> 128 + (digest[i] % 64)
          [] OTHER -> digest[i]]

uuid5(namespace, name) == UuidText(Uuid5Bytes(Sha1(namespace \o Utf8(name))))

----------------------------------------------------------------------------
(* The process environment, the access token, get_current_principal_id and *)
(* get_current_user_email                                                   *)

UpperLetters == <<"A", "B", "C", "D", "E", "F", "G", "H", "I", "J", "K", "L", "M", "N", "O", "P", "Q", "R", "S", "T", "U", "V", "W", "X", "Y", "Z">>
LowerLetters == <<"a", "b", "c", "d", "e", "f", "g", "h", "i", "j", "k", "l", "m", "n", "o", "p", "q", "r", "s", "t", "u", "v", "w", "x", "y", "z">>

LowerChar(c) ==
    IF \E i \in 1..26 : UpperLetters[i] = c
    THEN LowerLetters[CHOOSE i \in 1..26 : UpperLetters[i] = c]
    ELSE c

\* str.lower()
Lower(text) == [i \in 1..Len(text) |-> LowerChar(text[i])]

\* x or y, for two optional strings: x when it is a non-empty string, else y
OrElse(x, y) == IF ~x.isNone /\ x.val # <<>> THEN x ELSE y

\* A token is the sequence of the parts token.token.split(".") gives.  A
\* part is given by what base64url- and JSON-decoding it yields: nothing
\* (decoding raises), or the object's claims.
Undecodable == [decodes |-> FALSE, claims |-> None]
Claims(oid, username) ==
    [decodes |-> TRUE, claims |-> Some([oid |-> oid, preferred_username |-> username])]

ClientAuthenticationError == Exception("ClientAuthenticationError", "get_token", <<>>)
DecodeError == Exception("ValueError", "token_payload", <<>>)

\* raise RuntimeError("Could not determine current principal object id (oid)
\* from the access token. Set AZURE_PRINCIPAL_OBJECT_ID (or
\* principal_object_id) ...")
NoPrincipalError ==
    RuntimeError("no_principal_object_id",
                 <<"AZURE_PRINCIPAL_OBJECT_ID", "principal_object_id">>)

\* override = os.getenv("AZURE_PRINCIPAL_OBJECT_ID") or
\* os.getenv("principal_object_id"); if override and override.strip(): the
\* value returned before any token is asked for (None: no such value)
PrincipalOverride ==
    LET override == OrElse(osenv.AZURE_PRINCIPAL_OBJECT_ID, osenv.principal_object_id)
    IN  IF ~override.isNone /\ override.val # <<>> /\ Strip(override.val, Whitespace) # <<>>
        THEN Some(Strip(override.val, Whitespace))
        ELSE None

\* a resolver that takes the first of the two variables that is not blank
get_current_principal_id_first_not_blank(tokenResult) ==
    LET notBlank(x) == ~x.isNone /\ Strip(x.val, Whitespace) # <<>>
        a == osenv.AZURE_PRINCIPAL_OBJECT_ID
        b == osenv.principal_object_id
    IN  IF notBlank(a) THEN Return(Strip(a.val, Whitespace))
        ELSE IF notBlank(b) THEN Return(Strip(b.val, Whitespace))
        ELSE IF ~tokenResult.raised.isNone THEN Raise(tokenResult.raised.val)
        ELSE LET parts == tokenResult.value.val
             IN  IF Len(parts) >= 2 /\ ~parts[2].decodes THEN Raise(DecodeError)
                 ELSE IF /\ Len(parts) >= 2
                         /\ ~parts[2].claims.val.oid.isNone
                         /\ parts[2].claims.val.oid.val # <<>>
                      THEN Return(parts[2].claims.val.oid.val)
                 ELSE Raise(NoPrincipalError)

\* get_current_principal_id, given what CREDENTIAL.get_token gives when asked
get_current_principal_id(tokenResult) ==
    LET override == OrElse(osenv.AZURE_PRINCIPAL_OBJECT_ID, osenv.principal_object_id)
    IN  IF ~override.isNone /\ override.val # <<>> /\ Strip(override.val, Whitespace) # <<>>
        THEN Return(Strip(override.val, Whitespace))
        ELSE IF ~tokenResult.raised.isNone THEN Raise(tokenResult.raised.val)
        ELSE LET parts == tokenResult.value.val
             IN  IF Len(parts) >= 2 /\ ~parts[2].decodes THEN Raise(DecodeError)
                 ELSE IF /\ Len(parts) >= 2
                         /\ ~parts[2].claims.val.oid.isNone
                         /\ parts[2].claims.val.oid.val # <<>>
                      THEN Return(parts[2].claims.val.oid.val)
                 ELSE Raise(RuntimeError("no_principal_object_id",
                                         <<"AZURE_PRINCIPAL_OBJECT_ID", "principal_object_id">>))

\* get_current_user_email: the first of the name claims that is a non-blank
\* string (here the token carries preferred_username only), or None
get_current_user_email(tokenResult) ==
    IF ~tokenResult.raised.isNone THEN Raise(tokenResult.raised.val)
    ELSE LET parts == tokenResult.value.val
         IN  IF Len(parts) < 2 THEN Return(None)
             ELSE IF ~parts[2].decodes THEN Raise(DecodeError)
             ELSE LET name == parts[2].claims.val.preferred_username
                  IN  IF ~name.isNone /\ Strip(name.val, Whitespace) # <<>>
                      THEN Return(name)
                      ELSE Return(None)

----------------------------------------------------------------------------
(* The configuration files and environments the program is run with *)

ValidConfig(max) ==
    [k \in ConfigKeys |->
        IF k = "max_autoscale_throughput" THEN max ELSE Some(WrittenValue(k))]

MainConfigFiles ==
    { None,
      Some(ValidConfig(None)),
      Some(ValidConfig(Some(<<"2", "0", "0", "0">>))),
      Some(ValidConfig(Some(<<"9", "9", "9">>))),
      Some([ValidConfig(None) EXCEPT !["account_name"] = None]) }

Environment(flag, override, fallback) ==
    [ COSMOS_SAMPLE_DELETE_ACCOUNT |-> flag,
      AZURE_PRINCIPAL_OBJECT_ID    |-> override,
      principal_object_id          |-> fallback ]

Environments ==
    { NoEnvironment,
      Environment(Some(<<"t", "r", "u", "e">>), None, None),
      Environment(Some(<<"T", "r", "u", "e">>), Some(<<" ", "p", "1", " ">>), None),
      Environment(Some(<<"f", "a", "l", "s", "e">>), Some(<<" ">>), Some(<<"p", "4">>)),
      Environment(Some(<<"1">>), Some(<<>>), Some(<<"p", "4">>)),
      Environment(Some(<<" ", "t", "r", "u", "e">>), None, Some(<<"\t">>)) }

HeaderPart == [decodes |-> TRUE, claims |-> Some([oid |-> None, preferred_username |-> None])]

Tokens ==
    { <<HeaderPart>>,
      <<HeaderPart, Undecodable, HeaderPart>>,
      <<HeaderPart, Claims(None, None), HeaderPart>>,
      <<HeaderPart, Claims(Some(<<>>), Some(<<" ">>)), HeaderPart>>,
      <<HeaderPart, Claims(Some(<<"p", "2">>), Some(<<"m", "e">>)), HeaderPart>>,
      <<HeaderPart, Claims(Some(<<"p", "3">>), None)>> }

\* what CREDENTIAL.get_token may give
TokenResults == {Raise(ClientAuthenticationError)} \cup {Return(t) : t \in Tokens}

\* one call of get_current_principal_id
ResolvePrincipal ==
    /\ pc = "get_current_principal_id"
    /\ tokenAcquired' = PrincipalOverride.isNone
    /\ principalResult' = Some(get_current_principal_id(tokenGiven.val))
    /\ pc' = "returned"
    /\ UNCHANGED <<configFile, settings, error, scopeKind, scopeResult, tokenGiven, menuVars>>

\* what the two override variables may hold
OverrideTexts ==
    { None, Some(<<>>), Some(<<" ">>), Some(<<"p", "1">>), Some(<<" ", "p", "4", "\t">>) }

PrincipalEnvironments ==
    {Environment(None, override, fallback) :
        override \in OverrideTexts, fallback \in OverrideTexts}

PrincipalInit ==
    /\ NothingRun /\ stdinIsTty = TRUE
    /\ osenv \in PrincipalEnvironments
    /\ pc = "get_current_principal_id"
    /\ configFile = None /\ settings = None /\ error = None
    /\ scopeKind = "Account" /\ scopeResult = None
    /\ tokenGiven \in {Some(t) : t \in TokenResults}
    /\ tokenAcquired = FALSE
    /\ principalResult = None

SpecPrincipal == PrincipalInit /\ [][ResolvePrincipal]_vars

\* the role definition ids the two lookups may resolve
RoleIds == { <<"r", "1">>, <<"r", "2">> }

----------------------------------------------------------------------------
(* The name of a role assignment *)

\* the f-string f"{scope}|{role_definition_id}|{principal_id}"
AssignmentKey(scope, role_definition_id, principal_id) ==
    scope \o <<"|">> \o role_definition_id \o <<"|">> \o principal_id

\* The scopes, roles and principals that occur here, and the uuid5 of each of
\* their keys, computed once: uuid5 is a function of the key, so looking a
\* key up gives what computing it again would.
AssignmentSettings ==
    LET loaded == load_config(Some(ValidConfig(None))).value.val
    IN  {loaded, [loaded EXCEPT !.account_name = <<"o", "t", "h", "e", "r">>]}
KnownScopes ==
    {scope_mapping(st, kind) : st \in AssignmentSettings,
                               kind \in {"ResourceGroup", "Account", "Database"}}
KnownPrincipals == { <<>>, <<"p", "1">>, <<"p", "2">>, <<"p", "3">>, <<"p", "4">> }
KnownKeys ==
    {AssignmentKey(sc, r, p) : sc \in KnownScopes, r \in RoleIds, p \in KnownPrincipals}
KnownNames == [key \in KnownKeys |-> uuid5(NAMESPACE_URL, key)]

\* str(uuid.uuid5(uuid.NAMESPACE_URL, name))
Uuid5Text(name) ==
    IF name \in KnownKeys THEN KnownNames[name] ELSE uuid5(NAMESPACE_URL, name)

\* a name drawn from the scope and the role alone
RoleAssignmentNameWithoutPrincipal(scope, role_definition_id, principal_id) ==
    Uuid5Text(AssignmentKey(scope, role_definition_id, <<>>))

\* str(uuid.uuid5(uuid.NAMESPACE_URL, f"{scope}|{role_definition_id}|{principal_id}"))
RoleAssignmentName(scope, role_definition_id, principal_id) ==
    Uuid5Text(AssignmentKey(scope, role_definition_id, principal_id))

----------------------------------------------------------------------------
(* main: initialize_clients, the terminal test, close_clients *)

\* the values the current menu action keeps, as they are before it starts
ActionIdle ==
    /\ typed' = None /\ todo' = <<>> /\ calls' = <<>>
    /\ delta' = None /\ existing' = None /\ update' = None
    /\ roleDefinitionId' = None /\ assignment' = NoAssignment
    /\ caught' = None /\ reported' = ""

MainInitializeClients ==
    /\ pc = "initialize_clients"
    /\ CREDENTIAL' = "open"
    /\ COSMOS_CLIENT' = "open"
    /\ AUTHZ_CLIENT' = "open"
    /\ pc' = "isatty"
    /\ UNCHANGED <<configFile, settings, error, scopeVars, closed, inputVars, identityFailed, actionVars>>

\* if not sys.stdin.isatty(): print(...); return
MainNotATerminal ==
    /\ pc = "isatty"
    /\ ~stdinIsTty
    /\ pc' = "done"
    /\ UNCHANGED <<configFile, settings, error, scopeVars, menuVars>>

\* try: await run_interactive_menu()
MainRunMenu ==
    /\ pc = "isatty"
    /\ stdinIsTty
    /\ pc' = "menu"
    /\ UNCHANGED <<configFile, settings, error, scopeVars, menuVars>>

Handles == <<"COSMOS_CLIENT", "AUTHZ_CLIENT", "CREDENTIAL">>
CloseError(handle) == Exception("CloseError", "close", <<handle>>)

\* close_clients, run by main's finally.  Each handle is closed in a try
\* whose finally resets the global; an exception raised by a close() leaves
\* close_clients after that reset, so the later handles are not reached.
\* failing is the first handle whose close() raises, 0 for none.
MainCloseClients ==
    /\ pc = "close_clients"
    /\ \E failing \in 0..3 :
          LET reached(i) == failing = 0 \/ i <= failing
              isOpen(i) == <<COSMOS_CLIENT, AUTHZ_CLIENT, CREDENTIAL>>[i] # "None"
              raises == failing # 0 /\ isOpen(failing)
              after(i, now) == IF reached(i) THEN "None" ELSE now
          IN  /\ failing # 0 => isOpen(failing)
              /\ COSMOS_CLIENT' = after(1, COSMOS_CLIENT)
              /\ AUTHZ_CLIENT' = after(2, AUTHZ_CLIENT)
              /\ CREDENTIAL' = after(3, CREDENTIAL)
              /\ closed' = closed \cup {Handles[i] : i \in {j \in 1..3 :
                                reached(j) /\ isOpen(j) /\ j # failing}}
              /\ error' = IF raises THEN Some(CloseError(Handles[failing])) ELSE error
              /\ pc' = IF raises \/ ~error.isNone THEN "raised" ELSE "done"
    /\ UNCHANGED <<configFile, settings, scopeVars, inputVars, identityFailed, actionVars>>

----------------------------------------------------------------------------
(* run_interactive_menu *)

\* an exit test that also takes the empty line
ExitSelectionsWithEmptyLine ==
    { <<"0">>, <<"q">>, <<"q", "u", "i", "t">>, <<"e", "x", "i", "t">>, <<>> }

\* ("0", "q", "quit", "exit")
ExitSelections == { <<"0">>, <<"q">>, <<"q", "u", "i", "t">>, <<"e", "x", "i", "t">> }

\* what the operator may type at "Selection: "
SelectionTexts ==
    { <<"0">>, <<" ", "Q", " ">>, <<"q", "u", "i", "t">>, <<"E", "x", "i", "t">>,
      <<"1">>, <<"2">>, <<"3">>, <<"4">>, <<"5">>, <<"6">>, <<"7">>, <<"8">>,
      <<" ", "8", "\t">>, <<"9">>, <<>>, <<"x">>, <<"1", "0">>, <<"d", "e", "l", "e", "t", "e">> }

\* selection = (await _prompt("Selection: ")).lower(), _prompt stripping the
\* line read; a new iteration of the loop starts
MenuPrompt ==
    /\ pc = "menu"
    /\ \E text \in SelectionTexts : selection' = Lower(Strip(text, Whitespace))
    /\ ActionIdle
    /\ pc' = "dispatch"
    /\ UNCHANGED <<configFile, settings, error, scopeVars, clientVars, inputVars, identityFailed>>

\* input() raises EOFError at "Selection: " (end of input): the prompt is
\* outside the try, the exception leaves the loop and main's finally runs
MenuPromptRaises ==
    /\ pc = "menu"
    /\ ActionIdle
    /\ error' = Some(EOFError)
    /\ pc' = "close_clients"
    /\ UNCHANGED <<configFile, settings, scopeVars, clientVars, inputVars, identityFailed, selection>>

\* if selection in ("0", "q", "quit", "exit"): return
MenuExit ==
    /\ pc = "dispatch"
    /\ selection \in ExitSelections
    /\ pc' = "close_clients"
    /\ UNCHANGED <<configFile, settings, error, scopeVars, menuVars>>

\* a full sample that creates the database before the account
FullSampleDatabaseFirst ==
    << "create_or_update_cosmos_db_database",
       "create_or_update_cosmos_db_account",
       "get_azure_role_definition_cosmos_operator",
       "create_or_update_azure_rbac_assignment",
       "create_or_update_cosmos_db_container",
       "update_throughput",
       "get_cosmos_role_definition_data_contributor",
       "create_or_update_cosmos_role_assignment",
       "check_delete_flag" >>

\* run_full_sample, as the operations it awaits in order; the last entry is
\* the test of COSMOS_SAMPLE_DELETE_ACCOUNT
FullSample ==
    << "create_or_update_cosmos_db_account",
       "get_azure_role_definition_cosmos_operator",
       "create_or_update_azure_rbac_assignment",
       "create_or_update_cosmos_db_database",
       "create_or_update_cosmos_db_container",
       "update_throughput",
       "get_cosmos_role_definition_data_contributor",
       "create_or_update_cosmos_role_assignment",
       "check_delete_flag" >>

\* the branches of the menu that prompt for nothing
Operations(sel) ==
    CASE sel = <<"1">> -> FullSample
      [] sel = <<"2">> -> <<"create_or_update_cosmos_db_account">>
      [] sel = <<"3">> -> << "get_azure_role_definition_cosmos_operator",
                             "create_or_update_azure_rbac_assignment" >>
      [] sel = <<"4">> -> <<"create_or_update_cosmos_db_database">>
      [] sel = <<"5">> -> <<"create_or_update_cosmos_db_container">>
      [] sel = <<"7">> -> << "get_cosmos_role_definition_data_contributor",
                             "create_or_update_cosmos_role_assignment" >>

FullSampleDelta == 1000      \* await update_throughput(1000)
DefaultDelta == 1000         \* delta = 1000 if not raw

\* selections 1, 2, 3, 4, 5 and 7
MenuRun ==
    /\ pc = "dispatch"
    /\ selection \in {<<"1">>, <<"2">>, <<"3">>, <<"4">>, <<"5">>, <<"7">>}
    /\ todo' = Operations(selection)
    /\ delta' = IF selection = <<"1">> THEN Some(FullSampleDelta) ELSE None
    /\ pc' = "run"
    /\ UNCHANGED <<configFile, settings, error, scopeVars, clientVars, inputVars, identityFailed,
                   selection, typed, calls, existing, update, roleDefinitionId,
                   assignment, caught, reported>>

\* what the operator may type at "Throughput delta to add (default 1000): "
DeltaTexts ==
    { <<>>, <<" ">>, <<"1", "0", "0", "0">>, <<" ", "5", "0", "0">>, <<"0">>,
      <<"-", "4", "0", "0">>, <<"a", "b", "c">>, <<"1", "_", "0", "0", "0">>,
      <<"1", "0", "0", "0", ".", "0">> }

\* a handler that reports the failure and leaves the loop
CatchAndLeave(ex) ==
    /\ caught' = Some(ex)
    /\ reported' = "Operation failed"
    /\ todo' = <<>>
    /\ pc' = "close_clients"

\* the except clause of the loop: print(f"Operation failed: {ex}"), and the
\* loop goes on
Catch(ex) ==
    /\ caught' = Some(ex)
    /\ reported' = "Operation failed"
    /\ todo' = <<>>
    /\ pc' = "menu"

\* selection 6: the prompt, delta = 1000 if not raw else int(raw)
MenuThroughput ==
    /\ pc = "dispatch"
    /\ selection = <<"6">>
    /\ \/ \E text \in DeltaTexts :
            LET raw == Strip(text, Whitespace)
                parsed == IF raw = <<>> THEN Some(DefaultDelta) ELSE ParseInt(raw)
            IN  /\ typed' = Some(raw)
                /\ IF parsed.isNone
                   THEN /\ Catch(ValueError("invalid_literal_for_int", <<>>))
                        /\ delta' = None
                   ELSE /\ delta' = parsed
                        /\ todo' = <<"update_throughput">>
                        /\ pc' = "run"
                        /\ UNCHANGED <<caught, reported>>
       \/ /\ Catch(EOFError)
          /\ UNCHANGED <<typed, delta>>
    /\ UNCHANGED <<configFile, settings, error, scopeVars, clientVars, inputVars, identityFailed,
                   selection, calls, existing, update, roleDefinitionId, assignment>>

DELETE == <<"D", "E", "L", "E", "T", "E">>

\* what the operator may type at "Type DELETE to confirm ..."
ConfirmTexts ==
    { DELETE, <<" ">> \o DELETE \o <<" ", "\t">>, <<"d", "e", "l", "e", "t", "e">>,
      <<"D", "e", "l", "e", "t", "e">>, <<>>, DELETE \o <<"!">>, <<"y", "e", "s">>,
      <<"D", "E", "L", "E", "T">>, <<"\"">> \o DELETE \o <<"\"">> }

\* a comparison that accepts any answer starting with DELETE
ConfirmedByPrefix(confirm) == IsPrefix(DELETE, confirm)

\* if confirm == "DELETE"
Confirmed(confirm) == confirm = DELETE

\* selection 8: the confirmation prompt, stripped by _prompt and again by
\* .strip(); delete only on the literal DELETE
MenuDelete ==
    /\ pc = "dispatch"
    /\ selection = <<"8">>
    /\ \/ \E text \in ConfirmTexts :
            LET confirm == Strip(Strip(text, Whitespace), Whitespace)
            IN  /\ typed' = Some(confirm)
                /\ IF Confirmed(confirm)
                   THEN /\ todo' = <<"delete_cosmos_db_account">>
                        /\ pc' = "run"
                        /\ UNCHANGED <<caught, reported>>
                   ELSE /\ reported' = "Delete cancelled."
                        /\ pc' = "menu"
                        /\ UNCHANGED <<caught, todo>>
       \/ /\ Catch(EOFError)
          /\ UNCHANGED typed
    /\ UNCHANGED <<configFile, settings, error, scopeVars, clientVars, inputVars, identityFailed,
                   selection, calls, delta, existing, update, roleDefinitionId, assignment>>

KnownSelections ==
    ExitSelections \cup {<<"1">>, <<"2">>, <<"3">>, <<"4">>, <<"5">>, <<"6">>, <<"7">>, <<"8">>}

\* else: print("Unknown selection.")
MenuUnknown ==
    /\ pc = "dispatch"
    /\ selection \notin KnownSelections
    /\ reported' = "Unknown selection."
    /\ pc' = "menu"
    /\ UNCHANGED <<configFile, settings, error, scopeVars, clientVars, inputVars, identityFailed,
                   selection, typed, todo, calls, delta, existing, update,
                   roleDefinitionId, assignment, caught>>

----------------------------------------------------------------------------
(* The operations a menu action awaits, one at a time *)

\* how a control-plane call may fail
SdkFailures ==
    { HttpResponseError("403"), Exception("ServiceRequestError", "network", <<>>) }

\* the operation at the head of the list is invoked
Invoke(op) ==
    /\ pc = "run"
    /\ todo # <<>>
    /\ Head(todo) = op
    /\ calls' = Append(calls, op)

\* the operation returned: the action goes on with the next one, or the loop
\* with the next iteration
Proceed ==
    /\ todo' = Tail(todo)
    /\ pc' = IF Tail(todo) = <<>> THEN "menu" ELSE "run"
    /\ UNCHANGED <<caught, reported>>

create_or_update_cosmos_db_account ==
    /\ Invoke("create_or_update_cosmos_db_account")
    /\ \E tokenResult \in TokenResults, outcome \in {None} \cup {Some(ex) : ex \in SdkFailures} :
          LET owner_email == get_current_user_email(tokenResult)
          IN  IF ~owner_email.raised.isNone THEN Catch(owner_email.raised.val)
              ELSE IF ~outcome.isNone THEN Catch(outcome.val)
              ELSE Proceed
    /\ UNCHANGED <<configFile, settings, error, scopeVars, clientVars, inputVars, identityFailed,
                   selection, typed, delta, existing, update, roleDefinitionId, assignment>>

\* an operation that makes one long-running call and awaits its result
Simple(op) ==
    /\ Invoke(op)
    /\ \E outcome \in {None} \cup {Some(ex) : ex \in SdkFailures} :
          IF ~outcome.isNone THEN Catch(outcome.val) ELSE Proceed
    /\ UNCHANGED <<configFile, settings, error, scopeVars, clientVars, inputVars, identityFailed,
                   selection, typed, delta, existing, update, roleDefinitionId, assignment>>

create_or_update_cosmos_db_database == Simple("create_or_update_cosmos_db_database")
create_or_update_cosmos_db_container == Simple("create_or_update_cosmos_db_container")
delete_cosmos_db_account == Simple("delete_cosmos_db_account")

\* what AUTHZ_CLIENT.role_definitions.list may give: an error, or the ids of
\* the definitions listed (None for one without an id)
RoleListings ==
    {Raise(HttpResponseError("403")), Raise(Exception("ServiceRequestError", "network", <<>>)),
     Return(<<>>), Return(<<None>>)}
        \cup {Return(<<Some(r)>>) : r \in RoleIds}
        \cup {Return(<<None, Some(<<>>), Some(r)>>) : r \in RoleIds}

\* get_azure_role_definition_id_by_name: the first id that is not empty; a
\* failed listing and an empty result are RuntimeErrors of their own
get_azure_role_definition_id_by_name(listing) ==
    IF ~listing.raised.isNone
    THEN IF listing.raised.val.type = "HttpResponseError"
         THEN Raise(RuntimeError("failed_to_list_role_definitions", <<>>))
         ELSE Raise(listing.raised.val)
    ELSE LET ids == SelectSeq(listing.value.val, LAMBDA id : ~id.isNone /\ id.val # <<>>)
         IN  IF ids # <<>> THEN Return(ids[1].val)
             ELSE Raise(RuntimeError("role_definition_not_found", <<>>))

get_azure_role_definition_cosmos_operator ==
    /\ Invoke("get_azure_role_definition_cosmos_operator")
    /\ \E listing \in RoleListings :
          LET r == get_azure_role_definition_id_by_name(listing)
          IN  IF ~r.raised.isNone
              THEN Catch(r.raised.val) /\ UNCHANGED roleDefinitionId
              ELSE Proceed /\ roleDefinitionId' = r.value
    /\ UNCHANGED <<configFile, settings, error, scopeVars, clientVars, inputVars, identityFailed,
                   selection, typed, delta, existing, update, assignment>>

get_cosmos_role_definition_data_contributor ==
    /\ Invoke("get_cosmos_role_definition_data_contributor")
    /\ \E outcome \in {Raise(ex) : ex \in SdkFailures} \cup {Return(r) : r \in RoleIds} :
          IF ~outcome.raised.isNone
          THEN Catch(outcome.raised.val) /\ UNCHANGED roleDefinitionId
          ELSE Proceed /\ roleDefinitionId' = outcome.value
    /\ UNCHANGED <<configFile, settings, error, scopeVars, clientVars, inputVars, identityFailed,
                   selection, typed, delta, existing, update, assignment>>

\* the two assignment operations: the principal, the Account scope, the
\* name drawn from them and the role, then the one create call
Assign(op, plane) ==
    /\ Invoke(op)
    /\ \E tokenResult \in TokenResults, outcome \in {None} \cup {Some(ex) : ex \in SdkFailures} :
          LET principal_id == get_current_principal_id(tokenResult)
              scope == get_assignable_scope("Account")
          IN  IF ~principal_id.raised.isNone
              THEN /\ Catch(principal_id.raised.val)
                   /\ identityFailed' =
                        (identityFailed \/ principal_id.raised.val = NoPrincipalError)
                   /\ UNCHANGED assignment
              ELSE /\ UNCHANGED identityFailed
                   /\ assignment' = [assignment EXCEPT ![plane] =
                        Some([ scope |-> scope,
                               name |-> RoleAssignmentName(scope, roleDefinitionId.val,
                                                           principal_id.value.val),
                               role_definition_id |-> roleDefinitionId.val,
                               principal_id |-> principal_id.value.val ])]
                   /\ IF ~outcome.isNone THEN Catch(outcome.val) ELSE Proceed
    /\ UNCHANGED <<configFile, settings, error, scopeVars, clientVars, inputVars,
                   selection, typed, delta, existing, update, roleDefinitionId>>

create_or_update_azure_rbac_assignment ==
    Assign("create_or_update_azure_rbac_assignment", "control")

create_or_update_cosmos_role_assignment ==
    Assign("create_or_update_cosmos_role_assignment", "data")

MaxLevel == 4       \* throughput readings go up to MaxLevel thousand RU/s

Readings == {None, Some(0)} \cup {Some(1000 * k) : k \in 1..MaxLevel}

\* what the first get_sql_container_throughput may give
ThroughputReads ==
    {Raise(HttpResponseError(st)) : st \in {"404", "403", "500"}}
        \cup {Raise(Exception("HttpResponseError", "http", <<>>)),
              Raise(Exception("ServiceRequestError", "network", <<>>))}
        \cup {Return([resource |-> None])}
        \cup {Return([resource |-> Some([autoscale_settings |-> None, throughput |-> m])]) :
                m \in Readings}
        \cup {Return([resource |-> Some([autoscale_settings |-> Some([max_throughput |-> a]),
                                          throughput |-> m])]) :
                a \in Readings, m \in {None, Some(0), Some(1000)}}

\* update_throughput(delta): the read, the update built from it, the
\* update call, the read that verifies
update_throughput ==
    /\ Invoke("update_throughput")
    /\ \E read \in ThroughputReads,
          applied \in {None} \cup {Some(ex) : ex \in SdkFailures},
          verified \in {None, Some(HttpResponseError("500"))} :
          IF ~read.raised.isNone
          THEN /\ existing' = Some(read)
               /\ Catch(ReadFailure(read.raised.val))
               /\ UNCHANGED update
          ELSE /\ existing' = Some(read)
               /\ update' = Some(ThroughputUpdate(read.value.val, delta.val))
               /\ IF ~applied.isNone THEN Catch(applied.val)
                  ELSE IF ~verified.isNone THEN Catch(verified.val)
                  ELSE Proceed
    /\ UNCHANGED <<configFile, settings, error, scopeVars, clientVars, inputVars, identityFailed,
                   selection, typed, delta, roleDefinitionId, assignment>>

\* os.environ.get("COSMOS_SAMPLE_DELETE_ACCOUNT", "").lower() == "true"
DeleteRequested(flag) ==
    Lower(IF flag.isNone THEN <<>> ELSE flag.val) = <<"t", "r", "u", "e">>

\* the end of run_full_sample: the optional cleanup
check_delete_flag ==
    /\ pc = "run"
    /\ todo # <<>>
    /\ Head(todo) = "check_delete_flag"
    /\ IF DeleteRequested(osenv.COSMOS_SAMPLE_DELETE_ACCOUNT)
       THEN todo' = <<"delete_cosmos_db_account">> /\ pc' = "run"
       ELSE todo' = <<>> /\ pc' = "menu"
    /\ UNCHANGED <<configFile, settings, error, scopeVars, clientVars, inputVars, identityFailed,
                   selection, typed, calls, delta, existing, update, roleDefinitionId,
                   assignment, caught, reported>>

----------------------------------------------------------------------------
(* The program *)

Init ==
    /\ NothingRun
    /\ pc = "load_config"
    /\ configFile \in MainConfigFiles
    /\ settings = None
    /\ error = None
    /\ scopeKind = "Account"
    /\ scopeResult = None
    /\ NoPrincipalCall
    /\ stdinIsTty \in BOOLEAN
    /\ osenv \in Environments

Next ==
    \/ MainLoadConfig
    \/ MainInitializeClients
    \/ MainNotATerminal
    \/ MainRunMenu
    \/ MainCloseClients
    \/ MenuPrompt
    \/ MenuPromptRaises
    \/ MenuExit
    \/ MenuRun
    \/ MenuThroughput
    \/ MenuDelete
    \/ MenuUnknown
    \/ create_or_update_cosmos_db_account
    \/ get_azure_role_definition_cosmos_operator
    \/ create_or_update_azure_rbac_assignment
    \/ create_or_update_cosmos_db_database
    \/ create_or_update_cosmos_db_container
    \/ update_throughput
    \/ get_cosmos_role_definition_data_contributor
    \/ create_or_update_cosmos_role_assignment
    \/ check_delete_flag
    \/ delete_cosmos_db_account

Spec == Init /\ [][Next]_vars

----------------------------------------------------------------------------
(* Properties *)

LoadConfigDone == pc # "load_config" /\ ~configFile.isNone

AllWritten(d) == \A k \in RequiredKeySet : d[k] = Some(WrittenValue(k))

ConfigError == pc = "raised" /\ ~error.isNone /\ error.val.type = "ValueError" /\ settings = None

\* C5: a max_autoscale_throughput value below 1000 always fails with a
\* configuration error; with every required key present a value of exactly
\* 1000 or more succeeds and is the value in Settings; an absent value gives
\* the default 1000.
C5_ThroughputMinimum ==
    LoadConfigDone =>
      LET d == configFile.val
          t == d["max_autoscale_throughput"]
      IN  /\ \A n \in ThroughputInts, st \in TextStyles :
                t = Some(Styled(IntText(n), st)) =>
                  /\ n < 1000 => ConfigError
                  /\ n < 1000 /\ AllWritten(d) => error.val.kind = "below_minimum"
                  /\ n >= 1000 /\ AllWritten(d) =>
                        /\ pc = "initialize_clients"
                        /\ error = None
                        /\ ~settings.isNone
                        /\ settings.val.max_autoscale_throughput = n
          /\ t \in {None, Some(<<>>), Some(<<"\"", "\"">>)} /\ AllWritten(d) =>
                /\ pc = "initialize_clients"
                /\ ~settings.isNone
                /\ settings.val.max_autoscale_throughput = 1000

\* the value 999, one below the minimum, was rejected although every
\* required key was there
C5_Witness ==
    /\ LoadConfigDone
    /\ AllWritten(configFile.val)
    /\ configFile.val["max_autoscale_throughput"] = Some(<<"9", "9", "9">>)
    /\ pc = "raised"
    /\ error = Some(ValueError("below_minimum", <<"max_autoscale_throughput">>))

\* C6: whichever required keys the file omits, load_config fails with a
\* configuration error naming exactly the keys that are missing (omitted, or
\* blank once cleaned), in the order of required_keys, and Settings is never
\* returned with a default in place of a required key.
C6_MissingKeysNamed ==
    LoadConfigDone =>
      LET d == configFile.val
          omitted == SelectSeq(RequiredKeys, LAMBDA k : d[k] = None)
          blank == SelectSeq(RequiredKeys, LAMBDA k : d[k] = Some(BlankValue(k)))
          missing == SelectSeq(RequiredKeys, LAMBDA k : d[k] # Some(WrittenValue(k)))
      IN  /\ missing # <<>> =>
                /\ ConfigError
                /\ error.val = ValueError("missing_required_keys", missing)
          /\ omitted # <<>> /\ blank = <<>> =>
                /\ ConfigError
                /\ error.val.keys = omitted
          /\ ~settings.isNone =>
                \A k \in RequiredKeySet :
                    settings.val[k] # <<>> /\ settings.val[k] = ExpectedValue(k)

\* two keys omitted, the others written: the error names those two
C6_Witness ==
    /\ LoadConfigDone
    /\ \A k \in RequiredKeySet :
          configFile.val[k] = IF k \in {"account_name", "container_name"}
                              THEN None ELSE Some(WrittenValue(k))
    /\ pc = "raised"
    /\ error = Some(ValueError("missing_required_keys", <<"account_name", "container_name">>))

ScopeReturned == pc = "returned" /\ ~scopeResult.isNone

\* the Account resource id, written out from the settings
AccountPath ==
    SubscriptionsSegment \o settings.val.subscription_id
      \o ResourceGroupsSegment \o settings.val.resource_group_name
      \o DatabaseAccountsSegment \o settings.val.account_name

\* C7 as stated: over Subscription, ResourceGroup, Account, Database and
\* Container, each kind's scope is a strict prefix of the next kind's scope.
C7_AllFiveKindsNest ==
    ScopeReturned =>
      \A i \in 1..(Len(SpecKinds) - 1) :
          IsStrictPrefix(get_assignable_scope(SpecKinds[i]),
                         get_assignable_scope(SpecKinds[i + 1]))

\* C7, amended: over the four kinds the resolver holds (ResourceGroup,
\* Account, Database, Container) each scope is a strict prefix of the next,
\* and the ResourceGroup scope strictly extends the subscription path
\* /subscriptions/<subscription_id>; "Subscription" is no kind of the
\* resolver and resolves to the Account scope.
C7_RecognisedKindsNest ==
    ScopeReturned =>
      /\ IsStrictPrefix(SubscriptionScope, get_assignable_scope("ResourceGroup"))
      /\ IsStrictPrefix(get_assignable_scope("ResourceGroup"), get_assignable_scope("Account"))
      /\ IsStrictPrefix(get_assignable_scope("Account"), get_assignable_scope("Database"))
      /\ IsStrictPrefix(get_assignable_scope("Database"), get_assignable_scope("Container"))
      /\ get_assignable_scope("Subscription") = get_assignable_scope("Account")
      /\ \A i \in 2..(Len(SpecKinds) - 1) :
            scopeKind = SpecKinds[i + 1] =>
                IsStrictPrefix(get_assignable_scope(SpecKinds[i]), scopeResult.val)

\* the Container scope was resolved for names that hold a "/" themselves
C7_Witness ==
    /\ ScopeReturned
    /\ scopeKind = "Container"
    /\ settings.val.subscription_id = <<"s", "/", "1">>
    /\ IsStrictPrefix(get_assignable_scope("Database"), scopeResult.val)
    /\ Len(scopeResult.val) = Len(get_assignable_scope("Database")) + Len(CollsSegment)
                                + Len(settings.val.container_name)

\* C8: a kind that is not a key of the mapping resolves to exactly the
\* Account scope of the current settings (the call returns; nothing is
\* raised).
C8_UnknownKindIsAccount ==
    pc = "returned" /\ scopeKind \notin {"ResourceGroup", "Account", "Database", "Container"} =>
        scopeResult = Some(AccountPath)

\* the kind "account", in lower case, was resolved to the Account scope
C8_Witness ==
    /\ ScopeReturned
    /\ scopeKind = "account"
    /\ scopeResult.val = AccountPath
    /\ scopeResult.val # get_assignable_scope("ResourceGroup")

----------------------------------------------------------------------------
(* Properties of the whole program: deletion, the throughput update, the   *)
(* assignment names and the menu loop                                       *)

Invoked(op) == \E i \in 1..Len(calls) : calls[i] = op

\* an answer to the confirmation prompt that is not DELETE invokes nothing
OtherAnswerCancels ==
    selection = <<"8">> /\ ~typed.isNone /\ typed.val # DELETE
        => calls = <<>> /\ todo = <<>>

\* C1, as stated: in every run delete_cosmos_db_account is invoked only when
\* the operator has just typed the literal DELETE, and any other answer
\* cancels without calling it.
C1_DeleteOnlyAfterTypedDelete ==
    /\ Invoked("delete_cosmos_db_account") => typed = Some(DELETE)
    /\ OtherAnswerCancels

\* C1, amended: delete_cosmos_db_account is invoked only (a) by selection 8
\* after the operator's answer, stripped, is the literal DELETE, with nothing
\* else invoked, or (b) by the full sample, unprompted, after its eight
\* operations returned, when COSMOS_SAMPLE_DELETE_ACCOUNT lower-cased is
\* "true"; any other answer to the confirmation prompt cancels without
\* calling it.
C1_DeleteOnlyConfirmedOrRequested ==
    /\ Invoked("delete_cosmos_db_account") =>
          \/ /\ selection = <<"8">>
             /\ typed = Some(<<"D", "E", "L", "E", "T", "E">>)
             /\ calls = <<"delete_cosmos_db_account">>
          \/ /\ selection = <<"1">>
             /\ typed = None
             /\ ~osenv.COSMOS_SAMPLE_DELETE_ACCOUNT.isNone
             /\ Lower(osenv.COSMOS_SAMPLE_DELETE_ACCOUNT.val) = <<"t", "r", "u", "e">>
             /\ calls = SubSeq(FullSample, 1, 8) \o <<"delete_cosmos_db_account">>
    /\ OtherAnswerCancels

\* selection 8, DELETE typed with blanks around it, the delete invoked
C1_Witness ==
    /\ selection = <<"8">>
    /\ typed = Some(DELETE)
    /\ calls = <<"delete_cosmos_db_account">>
    /\ pc = "menu"

\* the first read of update_throughput returned a response
ReadReturned == ~existing.isNone /\ existing.val.raised.isNone
ReadRaised == ~existing.isNone /\ ~existing.val.raised.isNone
Response == existing.val.value.val

\* C2: when the first read gives an autoscale maximum, update_throughput
\* submits an autoscale update whose maximum is the current maximum, or the
\* configured max_autoscale_throughput when the current maximum is 0, plus
\* the delta, and no manual throughput.
C2_AutoscaleUpdate ==
    ReadReturned /\ ~CurrentAutoscaleMax(Response).isNone =>
        LET current_max == CurrentAutoscaleMax(Response).val
            base == IF current_max = 0 THEN settings.val.max_autoscale_throughput
                    ELSE current_max
        IN  update = Some([autoscale_max |-> Some(base + delta.val), throughput |-> None])

\* current maximum 4000 and delta 1000: 5000 submitted
C2_Witness ==
    /\ ReadReturned
    /\ CurrentAutoscaleMax(Response) = Some(4000)
    /\ delta = Some(1000)
    /\ ~update.isNone
    /\ update.val.autoscale_max = Some(5000)

\* C3: when the first read gives no autoscale maximum, update_throughput
\* submits a manual update: exactly the delta when the current manual
\* throughput is 0 or absent, the current manual throughput plus the delta
\* otherwise.
C3_ManualUpdate ==
    ReadReturned /\ CurrentAutoscaleMax(Response).isNone =>
        LET current == CurrentManualThroughput(Response)
            new == IF current.isNone \/ current.val = 0 THEN delta.val
                   ELSE current.val + delta.val
        IN  update = Some([autoscale_max |-> None, throughput |-> Some(new)])

\* current manual throughput 0 and delta 1000: 1000 submitted
C3_Witness ==
    /\ ReadReturned
    /\ CurrentAutoscaleMax(Response).isNone
    /\ CurrentManualThroughput(Response) = Some(0)
    /\ delta = Some(1000)
    /\ ~update.isNone
    /\ update.val.throughput = Some(1000)

\* C4: when the first read answers 404, update_throughput fails with the
\* RuntimeError that says the container has no dedicated throughput and
\* submits no update; any other failure of the read is raised as it is,
\* again with no update submitted.
C4_ReadFailure ==
    ReadRaised =>
        LET ex == existing.val.raised.val
        IN  /\ update = None
            /\ calls[Len(calls)] = "update_throughput"
            /\ ~caught.isNone
            /\ IF ex.type = "HttpResponseError" /\ ex.keys = <<"404">>
               THEN /\ caught.val.type = "RuntimeError"
                    /\ caught.val.kind = "no_dedicated_throughput"
               ELSE caught.val = ex

\* the read answered 404 and the RuntimeError reached the menu loop
C4_Witness ==
    /\ ReadRaised
    /\ existing.val.raised.val = HttpResponseError("404")
    /\ ~caught.isNone
    /\ caught.val.kind = "no_dedicated_throughput"
    /\ update = None

\* the assignments the current menu action submitted
Submitted == {assignment[plane].val : plane \in {q \in Planes : ~assignment[q].isNone}}

\* what the derivation gives for every scope, role and principal that occurs
Derived ==
    { [ scope |-> sc, name |-> RoleAssignmentName(sc, r, p),
        role_definition_id |-> r, principal_id |-> p ] :
        sc \in KnownScopes, r \in RoleIds, p \in KnownPrincipals \ {<<>>} }

InputsDiffering(a, b) ==
    Cardinality({ i \in 1..3 :
        <<a.scope, a.role_definition_id, a.principal_id>>[i]
            # <<b.scope, b.role_definition_id, b.principal_id>>[i] })

\* C9: the name of an assignment submitted to either plane is a function of
\* (scope, role definition id, principal id): against any other assignment
\* submitted, and against the name derived for any scope, role and
\* principal, equal inputs give the same name and inputs that differ in
\* exactly one of the three give a different name.
C9_NameIsFunctionOfInputs ==
    \A a \in Submitted : \A b \in Submitted \cup Derived :
        /\ InputsDiffering(a, b) = 0 => a.name = b.name
        /\ InputsDiffering(a, b) = 1 => a.name # b.name

\* the full sample submitted to both planes: the same scope and role, two
\* principals, two names
C9_Witness ==
    /\ ~assignment["control"].isNone /\ ~assignment["data"].isNone
    /\ assignment["control"].val.scope = assignment["data"].val.scope
    /\ assignment["control"].val.role_definition_id = assignment["data"].val.role_definition_id
    /\ assignment["control"].val.principal_id # assignment["data"].val.principal_id
    /\ assignment["control"].val.name # assignment["data"].val.name

\* a failure inside a menu action is caught and reported, and the menu is
\* presented again
FailureIsCaught ==
    ~caught.isNone =>
        pc = "menu" /\ reported = "Operation failed" /\ todo = <<>> /\ error = None

\* a selection that is none of 0, q, quit, exit, 1 .. 8 invokes nothing
UnknownInvokesNothing ==
    selection \notin { <<"0">>, <<"q">>, <<"q", "u", "i", "t">>, <<"e", "x", "i", "t">>,
                       <<"1">>, <<"2">>, <<"3">>, <<"4">>, <<"5">>, <<"6">>, <<"7">>, <<"8">> }
        => calls = <<>> /\ todo = <<>>

ChoseExit ==
    selection \in { <<"0">>, <<"q">>, <<"q", "u", "i", "t">>, <<"e", "x", "i", "t">> }

\* C10, as stated: a failure inside a menu action is caught and reported and
\* the loop goes on; the loop has ended (main is about to close the
\* clients) only when the operator chose 0, q, quit or exit; an unknown
\* selection invokes no operation.
C10_LoopEndsOnlyOnExit ==
    /\ FailureIsCaught
    /\ pc = "close_clients" => ChoseExit
    /\ UnknownInvokesNothing

\* C10, amended: as above, but the loop has ended either because the
\* operator chose 0, q, quit or exit, or because reading the selection
\* itself raised (end of input at "Selection: "), which no handler catches.
C10_LoopEndsOnExitOrFailedPrompt ==
    /\ FailureIsCaught
    /\ pc = "close_clients" =>
          \/ ChoseExit /\ error = None
          \/ ~ChoseExit /\ error = Some(EOFError) /\ caught = None
    /\ UnknownInvokesNothing

\* the full sample failed part-way, the failure was reported and the menu
\* is up again
C10_Witness ==
    /\ selection = <<"1">>
    /\ Len(calls) >= 2
    /\ ~caught.isNone
    /\ reported = "Operation failed"
    /\ pc = "menu"

----------------------------------------------------------------------------
(* Properties of main and close_clients *)

\* main has ended, by a return or by an exception
MainEnded == pc \in {"done", "raised"}

\* main went past initialize_clients: load_config returned the settings,
\* and initialize_clients, which raises nothing here, follows it
ClientsInitialised == ~settings.isNone /\ pc \notin {"load_config", "initialize_clients"}

\* close_clients ran: its first finally has reset COSMOS_CLIENT
CloseClientsRan == ClientsInitialised /\ COSMOS_CLIENT = "None"

\* C11: on every path by which main ends after the clients were
\* initialised (menu exit, an error leaving the menu, the return when
\* standard input is not a terminal) close_clients has run.
C11_ClosedOnEveryExit ==
    MainEnded /\ ClientsInitialised => CloseClientsRan

\* C15: when close_clients has run, each of the three handles has been
\* closed and all three globals are None, also when a close() raised.
C15_AllHandlesReleased ==
    MainEnded /\ CloseClientsRan =>
        /\ COSMOS_CLIENT = "None" /\ AUTHZ_CLIENT = "None" /\ CREDENTIAL = "None"
        /\ closed = {"COSMOS_CLIENT", "AUTHZ_CLIENT", "CREDENTIAL"}

----------------------------------------------------------------------------
(* Properties of get_current_principal_id *)

PrincipalReturned == pc = "returned" /\ ~principalResult.isNone

NotBlank(x) == ~x.isNone /\ Strip(x.val, Whitespace) # <<>>

\* the oid claim of the second segment of the token given: None when the
\* token was not issued, has no second segment, does not decode, or carries
\* no oid or an empty one
TokenOid ==
    LET t == tokenGiven.val
    IN  IF ~t.raised.isNone THEN None
        ELSE IF Len(t.value.val) < 2 THEN None
        ELSE IF ~t.value.val[2].decodes THEN None
        ELSE IF t.value.val[2].claims.val.oid = Some(<<>>) THEN None
        ELSE t.value.val[2].claims.val.oid

ResolutionErrorNamingOverride(result) ==
    /\ ~result.raised.isNone
    /\ result.raised.val.type = "RuntimeError"
    /\ result.raised.val.keys = <<"AZURE_PRINCIPAL_OBJECT_ID", "principal_object_id">>

\* C12, as stated: when an override variable holds a non-blank value the
\* resolver returns it trimmed and asks for no token; otherwise it returns
\* the oid claim of the token's second segment; when neither gives a value
\* it fails with the resolution error that names the override variable.
C12_OverrideThenTokenThenError ==
    PrincipalReturned =>
        LET a == osenv.AZURE_PRINCIPAL_OBJECT_ID
            b == osenv.principal_object_id
        IN  IF NotBlank(a) \/ NotBlank(b)
            THEN /\ ~tokenAcquired
                 /\ principalResult.val =
                        Return(Strip((IF NotBlank(a) THEN a ELSE b).val, Whitespace))
            ELSE IF ~TokenOid.isNone
            THEN tokenAcquired /\ principalResult.val = Return(TokenOid.val)
            ELSE ResolutionErrorNamingOverride(principalResult.val)

\* C12, amended: the override is AZURE_PRINCIPAL_OBJECT_ID when that is set
\* and not empty, else principal_object_id; when the override is not blank
\* the resolver returns it trimmed and asks for no token.  Otherwise it asks
\* for the token: a failure to issue it, or to decode its second segment, is
\* raised as it is; a non-empty oid claim of the second segment is returned;
\* in every other case the RuntimeError naming both variables is raised.
C12_ResolutionOrder ==
    PrincipalReturned =>
        LET a == osenv.AZURE_PRINCIPAL_OBJECT_ID
            b == osenv.principal_object_id
            override == IF ~a.isNone /\ a.val # <<>> THEN a ELSE b
            t == tokenGiven.val
        IN  IF NotBlank(override)
            THEN /\ ~tokenAcquired
                 /\ principalResult.val = Return(Strip(override.val, Whitespace))
            ELSE /\ tokenAcquired
                 /\ IF ~t.raised.isNone
                    THEN principalResult.val = Raise(t.raised.val)
                    ELSE IF Len(t.value.val) >= 2 /\ ~t.value.val[2].decodes
                    THEN /\ ~principalResult.val.raised.isNone
                         /\ principalResult.val.raised.val.kind = "token_payload"
                    ELSE IF ~TokenOid.isNone
                    THEN principalResult.val = Return(TokenOid.val)
                    ELSE ResolutionErrorNamingOverride(principalResult.val)

\* the override is set with blanks around it: returned trimmed, no token asked for
C12_Witness ==
    /\ PrincipalReturned
    /\ osenv.AZURE_PRINCIPAL_OBJECT_ID = Some(<<" ", "p", "4", "\t">>)
    /\ principalResult.val = Return(<<"p", "4">>)
    /\ ~tokenAcquired

----------------------------------------------------------------------------
(* Properties of run_full_sample and of the errors that end a run *)

\* the order the claim gives: account, database, container, throughput, each
\* role definition before its assignment, the optional delete last
PipelineOrder ==
    << "create_or_update_cosmos_db_account",
       "get_azure_role_definition_cosmos_operator",
       "create_or_update_azure_rbac_assignment",
       "create_or_update_cosmos_db_database",
       "create_or_update_cosmos_db_container",
       "update_throughput",
       "get_cosmos_role_definition_data_contributor",
       "create_or_update_cosmos_role_assignment",
       "delete_cosmos_db_account" >>

Position(op) == CHOOSE i \in 1..Len(PipelineOrder) : PipelineOrder[i] = op

\* C13: in the full sample an operation is invoked only after every
\* operation before it in the dependency order was invoked and returned
\* (account, database, container, throughput; each role definition before
\* its assignment), one operation at a time, and after a failure nothing
\* more is invoked, the optional delete included.
C13_FullSampleInOrder ==
    selection = <<"1">> =>
        /\ IsPrefix(calls, PipelineOrder)
        /\ \A i \in 1..Len(calls) : \A j \in 1..Len(calls) :
              Position(calls[i]) < Position(calls[j]) => i < j
        /\ ~caught.isNone => todo = <<>> /\ pc = "menu"
        /\ pc = "run" /\ calls # <<>> => caught = None

\* the eight operations of the full sample, invoked in order, all returned
C13_Witness ==
    /\ selection = <<"1">>
    /\ calls = SubSeq(PipelineOrder, 1, 8)
    /\ caught = None
    /\ pc = "menu"

\* load_config raised: no settings, and main has ended with the exception
ConfigFailed == pc = "raised" /\ settings.isNone

\* a configuration error is raised before any client exists or any
\* operation is invoked
ConfigErrorBeforeClients ==
    ConfigFailed =>
        /\ COSMOS_CLIENT = "None" /\ AUTHZ_CLIENT = "None" /\ CREDENTIAL = "None"
        /\ closed = {}
        /\ calls = <<>> /\ selection = <<>>

IdentityErrorCaught ==
    /\ ~caught.isNone
    /\ caught.val.type = "RuntimeError"
    /\ caught.val.kind = "no_principal_object_id"

\* C14, as stated: a configuration error is raised before any client is
\* initialised or any operation invoked, and once the principal could not
\* be resolved no further operation is invoked in the run.
C14_ErrorsEndTheRun ==
    /\ ConfigErrorBeforeClients
    /\ identityFailed /\ ~IdentityErrorCaught => calls = <<>>

\* C14, amended: a configuration error is raised before any client is
\* initialised or any operation invoked; when the principal cannot be
\* resolved the assignment that asked for it is the last operation its menu
\* action invokes, and the menu is presented again with the clients open.
C14_ErrorsEndTheAction ==
    /\ ConfigErrorBeforeClients
    /\ IdentityErrorCaught =>
          /\ identityFailed
          /\ calls[Len(calls)] \in { "create_or_update_azure_rbac_assignment",
                                     "create_or_update_cosmos_role_assignment" }
          /\ todo = <<>>
          /\ pc = "menu"
          /\ error = None
          /\ CREDENTIAL = "open"

\* the full sample stopped at the first assignment: no principal
C14_Witness ==
    /\ selection = <<"1">>
    /\ IdentityErrorCaught
    /\ calls = SubSeq(PipelineOrder, 1, 3)
    /\ todo = <<>>
    /\ pc = "menu"

====
